---- MODULE Spec2Model ----
(***************************************************************************)
(* Model of indy-utils/src/keys/mod.rs: the three key types SignKey,       *)
(* VerKey and EncodedVerKey, the qualified / short textual key format,     *)
(* validation, the sign / verify delegation and zeroize-on-drop.           *)
(*                                                                         *)
(* Text is a sequence of one-character strings, raw key material a         *)
(* sequence of bytes (0..255).  A fallible operation yields a record       *)
(* [ok, val, err]; err = "panic" stands for a Rust panic.                  *)
(***************************************************************************)
EXTENDS Integers, Sequences, FiniteSets, TLC

VARIABLES
    pkey, pargs, pop, pres, plf, pre, ppc,      \* parsing
    okind, oinst, oarg, oop, oout, oout2, opc,  \* one operation on one key
    galg, gsk, gmsg, gsig, gvk, gtry, gout, gpc, \* generate, sign, verify
    heap                                        \* instances and their storage

parseVars == <<pkey, pargs, pop, pres, plf, pre, ppc>>
opsVars == <<okind, oinst, oarg, oop, oout, oout2, opc>>
signVars == <<galg, gsk, gmsg, gsig, gvk, gtry, gout, gpc>>
lifeVars == <<heap>>
vars == <<parseVars, opsVars, signVars, lifeVars>>

----------------------------------------------------------------------------
(* Bounds of the model.                                                    *)

MaxHead == 2
MaxTail == 3
MaxDest == 1
MaxOff == 1
NSeeds == 3
MaxMsg == 1
MaxInst == 2

(* Program constants.                                                      *)

KeyLen == 32
HalfLen == KeyLen \div 2
PubOffset == 32

----------------------------------------------------------------------------
(* Generic helpers.                                                        *)

Ok(v) == [ok |-> TRUE, val |-> v, err |-> "none"]
Err(e) == [ok |-> FALSE, val |-> "none", err |-> e]
Panic == [ok |-> FALSE, val |-> "none", err |-> "panic"]

None == [some |-> FALSE, v |-> <<>>]
Some(x) == [some |-> TRUE, v |-> x]

Rep(x, n) == [i \in 1..n |-> x]

Reverse(s) == [i \in 1..Len(s) |-> s[Len(s) + 1 - i]]

StrUpTo(alphabet, n) == UNION {[1..k -> alphabet] : k \in 0..n}

Colon == ":"
Tilde == "~"

----------------------------------------------------------------------------
(* Byte codec (super::base58): positional conversion between base 256 and  *)
(* base 58, every leading zero byte written as the digit "1".              *)

B58Alphabet ==
    <<"1","2","3","4","5","6","7","8","9",
      "A","B","C","D","E","F","G","H","J","K","L","M","N","P","Q","R","S",
      "T","U","V","W","X","Y","Z",
      "a","b","c","d","e","f","g","h","i","j","k","m","n","o","p","q","r",
      "s","t","u","v","w","x","y","z">>

IsB58(c) == \E i \in 1..Len(B58Alphabet) : B58Alphabet[i] = c

B58Value(c) == (CHOOSE i \in 1..Len(B58Alphabet) : B58Alphabet[i] = c) - 1

(* The number of leading elements of s equal to x.                         *)
LeadingCount(s, x) ==
    CHOOSE n \in 0..Len(s) :
        /\ \A j \in 1..n : s[j] = x
        /\ (n < Len(s) => s[n + 1] # x)

(* acc is a little-endian number in base `base`; the result is            *)
(* acc * mul + carry in the same representation.                           *)
RECURSIVE MulAdd(_, _, _, _)
MulAdd(acc, mul, carry, base) ==
    IF acc = <<>>
    THEN IF carry = 0 THEN <<>>
         ELSE <<carry % base>> \o MulAdd(<<>>, mul, carry \div base, base)
    ELSE LET v == Head(acc) * mul + carry
         IN  <<v % base>> \o MulAdd(Tail(acc), mul, v \div base, base)

RECURSIVE ConvertLE(_, _, _, _)
ConvertLE(digits, from, to, acc) ==
    IF digits = <<>> THEN acc
    ELSE ConvertLE(Tail(digits), from, to, MulAdd(acc, from, Head(digits), to))

(* Big-endian digits in base `from` to big-endian digits in base `to`.     *)
ConvertBase(digits, from, to) == Reverse(ConvertLE(digits, from, to, <<>>))

base58_encode(bytes) ==
    LET z == LeadingCount(bytes, 0)
        rest == SubSeq(bytes, z + 1, Len(bytes))
        ds == ConvertBase(rest, 256, 58)
    IN  Rep("1", z) \o [i \in 1..Len(ds) |-> B58Alphabet[ds[i] + 1]]

base58_decode(text) ==
    IF \E i \in 1..Len(text) : ~IsB58(text[i])
    THEN Err("InvalidEncoding")
    ELSE LET z == LeadingCount(text, "1")
             rest == SubSeq(text, z + 1, Len(text))
             ds == [i \in 1..Len(rest) |-> B58Value(rest[i])]
         IN  Ok(Rep(0, z) \o ConvertBase(ds, 58, 256))

----------------------------------------------------------------------------
(* UTF-8 (std::str::from_utf8), restricted to printable ASCII plus bytes   *)
(* >= 128 that never form valid UTF-8 on their own.                        *)

AsciiTable ==
    <<" ","!","dquote","#","$","%","&","'","(",")","*","+",",","-",".","/",
      "0","1","2","3","4","5","6","7","8","9",":",";","<","=",">","?",
      "@","A","B","C","D","E","F","G","H","I","J","K","L","M","N","O",
      "P","Q","R","S","T","U","V","W","X","Y","Z","[","backslash","]","^","_",
      "backtick","a","b","c","d","e","f","g","h","i","j","k","l","m","n","o",
      "p","q","r","s","t","u","v","w","x","y","z","{","|","}","~">>

AsciiCode(c) == 31 + (CHOOSE i \in 1..Len(AsciiTable) : AsciiTable[i] = c)

as_bytes(text) == [i \in 1..Len(text) |-> AsciiCode(text[i])]

from_utf8(bytes) ==
    IF \E i \in 1..Len(bytes) : bytes[i] < 32 \/ bytes[i] > 126
    THEN Err("InvalidEncoding")
    ELSE Ok([i \in 1..Len(bytes) |-> AsciiTable[bytes[i] - 31]])

----------------------------------------------------------------------------
(* KeyType / KeyEncoding (keys/types.rs): string-valued tags.  The empty   *)
(* string names the default tag.                                           *)

ED25519 == <<"e","d","2","5","5","1","9">>
X25519 == <<"x","2","5","5","1","9">>
BASE58 == <<"b","a","s","e","5","8">>

KeyType_default == ED25519
KeyEncoding_default == BASE58

KeyType_from(s) == IF s = <<>> THEN KeyType_default ELSE s
KeyType_deref(t) == t

KeyEncoding_from(s) == IF s = <<>> THEN KeyEncoding_default ELSE s

KeyType_unwrap_or_default(a) == IF a.some THEN a.v ELSE KeyType_default
KeyEncoding_unwrap_or_default(e) == IF e.some THEN e.v ELSE KeyEncoding_default

----------------------------------------------------------------------------
(* EncodedVerKey: construction, parsing, long form.                        *)

EncodedVerKey_new(key, alg, enc) ==
    [key |-> key,
     alg |-> KeyType_unwrap_or_default(alg),
     enc |-> KeyEncoding_unwrap_or_default(enc)]

contains(text, c) == \E i \in 1..Len(text) : text[i] = c

starts_with(text, c) == text # <<>> /\ text[1] = c

(* A split at the last occurrence instead of the first (rsplitn).           *)
splitn2_last(text, c) ==
    IF \E i \in 1..Len(text) : text[i] = c
    THEN LET p == CHOOSE i \in 1..Len(text) :
                     /\ text[i] = c
                     /\ \A j \in (i + 1)..Len(text) : text[j] # c
         IN  <<SubSeq(text, 1, p - 1), SubSeq(text, p + 1, Len(text))>>
    ELSE <<text>>

(* str::splitn(2, c): at most two pieces, cut at the first occurrence.     *)
splitn2(text, c) ==
    IF contains(text, c)
    THEN LET p == CHOOSE i \in 1..Len(text) :
                     /\ text[i] = c
                     /\ \A j \in 1..(i - 1) : text[j] # c
         IN  <<SubSeq(text, 1, p - 1), SubSeq(text, p + 1, Len(text))>>
    ELSE <<text>>

(* The short-form branch with the suffix bytes placed first.               *)
from_str_qualified_suffix_first(key, dest, alg, enc) ==
    LET splits == splitn2(key, Colon)
        key2 == IF contains(key, Colon) THEN splits[1] ELSE key
        alg2 == IF contains(key, Colon)
                THEN IF splits[2] = <<>> THEN alg
                     ELSE Some(KeyType_from(splits[2]))
                ELSE alg
    IN  IF starts_with(key2, Tilde)
        THEN IF ~dest.some THEN Err("MissingDestination")
             ELSE LET result == base58_decode(dest.v)
                  IN  IF ~result.ok THEN Err(result.err)
                      ELSE LET end == base58_decode(SubSeq(key2, 2, Len(key2)))
                           IN  IF ~end.ok THEN Err(end.err)
                               ELSE Ok(EncodedVerKey_new(
                                        base58_encode(end.val \o result.val),
                                        alg2, enc))
        ELSE Ok(EncodedVerKey_new(key2, alg2, enc))

(* The short-form branch with an absent destination read as empty text.    *)
from_str_qualified_dest_optional(key, dest, alg, enc) ==
    LET splits == splitn2(key, Colon)
        key2 == IF contains(key, Colon) THEN splits[1] ELSE key
        alg2 == IF contains(key, Colon)
                THEN IF splits[2] = <<>> THEN alg
                     ELSE Some(KeyType_from(splits[2]))
                ELSE alg
    IN  IF starts_with(key2, Tilde)
        THEN LET result == base58_decode(dest.v)
             IN  IF ~result.ok THEN Err(result.err)
                 ELSE LET end == base58_decode(SubSeq(key2, 2, Len(key2)))
                      IN  IF ~end.ok THEN Err(end.err)
                          ELSE Ok(EncodedVerKey_new(
                                   base58_encode(result.val \o end.val),
                                   alg2, enc))
        ELSE Ok(EncodedVerKey_new(key2, alg2, enc))

from_str_qualified(key, dest, alg, enc) ==
    LET splits == splitn2(key, Colon)
        key2 == IF contains(key, Colon) THEN splits[1] ELSE key
        alg2 == IF contains(key, Colon)
                THEN IF splits[2] = <<>> THEN alg
                     ELSE Some(KeyType_from(splits[2]))
                ELSE alg
    IN  IF starts_with(key2, Tilde)
        THEN IF ~dest.some THEN Err("MissingDestination")
             ELSE LET result == base58_decode(dest.v)
                  IN  IF ~result.ok THEN Err(result.err)
                      ELSE LET end == base58_decode(SubSeq(key2, 2, Len(key2)))
                           IN  IF ~end.ok THEN Err(end.err)
                               ELSE Ok(EncodedVerKey_new(
                                        base58_encode(result.val \o end.val),
                                        alg2, enc))
        ELSE Ok(EncodedVerKey_new(key2, alg2, enc))

from_str(key) == from_str_qualified(key, None, None, None)

from_slice(bytes) ==
    LET key == from_utf8(bytes)
    IN  IF ~key.ok THEN Err(key.err)
        ELSE from_str_qualified(key.val, None, None, None)

build_full_verkey(dest, key) == from_str_qualified(key, Some(dest), None, None)

(* long_form without the separating colon.                                 *)
long_form_no_colon(k) == k.key \o KeyType_deref(k.alg)

(* long_form that drops the tag when it is the default one, as Display.    *)
long_form_as_display(k) ==
    IF k.alg = KeyType_default THEN k.key
    ELSE (k.key \o <<Colon>>) \o KeyType_deref(k.alg)

long_form(k) == (k.key \o <<Colon>>) \o KeyType_deref(k.alg)

----------------------------------------------------------------------------
(* Inputs of the parsing operations.                                       *)

HeadAlphabet == {"~", "1", "z", "0"}
TailAlphabet == {"b", ":"}
DestAlphabet == {"1", "z", "0"}

(* A base58 text that decodes to HalfLen bytes.                            *)
Half58 == Rep("1", HalfLen - 1) \o <<"z">>

Heads == StrUpTo(HeadAlphabet, MaxHead) \cup {<<Tilde>> \o Half58}
Tails ==
    {<<>>, <<Colon>> \o ED25519, <<Colon>> \o X25519}
        \cup {<<Colon>> \o t : t \in StrUpTo(TailAlphabet, MaxTail)}
ParseKeys == {h \o t : h \in Heads, t \in Tails}
Dests == StrUpTo(DestAlphabet, MaxDest) \cup {Half58}
OptDests == {None} \cup {Some(d) : d \in Dests}
OptAlgs == {None, Some(X25519), Some(<<"b">>)}
OptEncs == {None, Some(<<"h","e","x">>)}

NoArgs == [dest |-> None, alg |-> None, enc |-> None]

----------------------------------------------------------------------------
(* Parsing as a state machine: an input is chosen, one parse operation is  *)
(* applied, and a successful from_str is formatted and parsed again.       *)

ParseInit ==
    /\ pkey \in ParseKeys
    /\ pargs = NoArgs
    /\ pop = "none"
    /\ pres = Err("none")
    /\ plf = <<>>
    /\ pre = Err("none")
    /\ ppc = "start"

FromStr ==
    /\ ppc = "start"
    /\ pop' = "from_str"
    /\ pres' = from_str(pkey)
    /\ ppc' = "parsed"
    /\ UNCHANGED <<pkey, pargs, plf, pre>>
    /\ UNCHANGED <<opsVars, signVars, lifeVars>>

FromSlice ==
    /\ ppc = "start"
    /\ \E bad \in BOOLEAN :
          LET bytes == IF bad THEN as_bytes(pkey) \o <<255>> ELSE as_bytes(pkey)
          IN  /\ pop' = (IF bad THEN "from_slice_bad" ELSE "from_slice")
              /\ pres' = from_slice(bytes)
    /\ ppc' = "parsed"
    /\ UNCHANGED <<pkey, pargs, plf, pre>>
    /\ UNCHANGED <<opsVars, signVars, lifeVars>>

FromStrQualified ==
    /\ ppc = "start"
    /\ \E d \in OptDests, a \in OptAlgs, e \in OptEncs :
          /\ pargs' = [dest |-> d, alg |-> a, enc |-> e]
          /\ pres' = from_str_qualified(pkey, d, a, e)
    /\ pop' = "from_str_qualified"
    /\ ppc' = "parsed"
    /\ UNCHANGED <<pkey, plf, pre>>
    /\ UNCHANGED <<opsVars, signVars, lifeVars>>

BuildFullVerkey ==
    /\ ppc = "start"
    /\ \E d \in Dests :
          /\ pargs' = [dest |-> Some(d), alg |-> None, enc |-> None]
          /\ pres' = build_full_verkey(d, pkey)
    /\ pop' = "build_full_verkey"
    /\ ppc' = "parsed"
    /\ UNCHANGED <<pkey, plf, pre>>
    /\ UNCHANGED <<opsVars, signVars, lifeVars>>

LongForm ==
    /\ ppc = "parsed"
    /\ pop = "from_str"
    /\ pres.ok
    /\ plf' = long_form(pres.val)
    /\ ppc' = "formed"
    /\ UNCHANGED <<pkey, pargs, pop, pres, pre>>
    /\ UNCHANGED <<opsVars, signVars, lifeVars>>

Reparse ==
    /\ ppc = "formed"
    /\ pre' = from_str(plf)
    /\ ppc' = "reparsed"
    /\ UNCHANGED <<pkey, pargs, pop, pres, plf>>
    /\ UNCHANGED <<opsVars, signVars, lifeVars>>

ParseNext ==
    \/ FromStr
    \/ FromSlice
    \/ FromStrQualified
    \/ BuildFullVerkey
    \/ LongForm
    \/ Reparse

ParseIdle ==
    /\ pkey = <<>>
    /\ pargs = NoArgs
    /\ pop = "none"
    /\ pres = Err("none")
    /\ plf = <<>>
    /\ pre = Err("none")
    /\ ppc = "idle"

----------------------------------------------------------------------------
(* Properties of parsing.                                                  *)

HasColon(s) == \E i \in 1..Len(s) : s[i] = Colon

(* The length of the longest colon-free prefix of s.                       *)
PrefixLen(s) ==
    CHOOSE n \in 0..Len(s) :
        /\ \A j \in 1..n : s[j] # Colon
        /\ (n < Len(s) => s[n + 1] = Colon)

KeyPart(s) == SubSeq(s, 1, PrefixLen(s))
Remainder(s) == SubSeq(s, PrefixLen(s) + 2, Len(s))

SuppliedAlg == IF pargs.alg.some THEN pargs.alg.v ELSE KeyType_default
SuppliedEnc == IF pargs.enc.some THEN pargs.enc.v ELSE KeyEncoding_default

ParseOps == {"from_str", "from_slice", "from_str_qualified", "build_full_verkey"}
Parsed == ppc # "start" /\ pop \in ParseOps

Txt_z_b_b == <<"z", ":", "b", ":", "b">>

(* C1 as stated: a parse splits its input at the first colon only: the     *)
(* key text is always the part before it (the whole input when there is    *)
(* no colon), a non-empty remainder, further colons included, is the       *)
(* algorithm and overrides the supplied one, an empty remainder or no      *)
(* colon leaves the supplied or default algorithm.                         *)
C1_KeyTextIsKeyPart ==
    (Parsed /\ pres.ok) =>
        /\ pres.val.alg =
              (IF HasColon(pkey) /\ Remainder(pkey) # <<>>
               THEN Remainder(pkey) ELSE SuppliedAlg)
        /\ pres.val.key = KeyPart(pkey)
        /\ (~HasColon(pkey) => KeyPart(pkey) = pkey)

(* C1 amended: as above, but the key text is the part before the first     *)
(* colon only when that part is not a short form; a short form, which      *)
(* parses only with a destination, gives the expansion of that part.       *)
C1_SplitOnFirstColon ==
    (Parsed /\ pres.ok) =>
        /\ pres.val.alg =
              (IF HasColon(pkey) /\ Remainder(pkey) # <<>>
               THEN Remainder(pkey) ELSE SuppliedAlg)
        /\ (~starts_with(KeyPart(pkey), Tilde) => pres.val.key = KeyPart(pkey))
        /\ (starts_with(KeyPart(pkey), Tilde) =>
               /\ pargs.dest.some
               /\ pres.val.key =
                  base58_encode(
                     base58_decode(pargs.dest.v).val
                        \o base58_decode(Tail(KeyPart(pkey))).val))
        /\ (~HasColon(pkey) => KeyPart(pkey) = pkey)

C1_Witness ==
    /\ pop = "from_str"
    /\ pkey = Txt_z_b_b
    /\ pres = Ok([key |-> <<"z">>, alg |-> <<"b", ":", "b">>, enc |-> BASE58])

(* C2: a short form "~"+S parsed with destination D, both decodable,        *)
(* succeeds and its text decodes to decode(D) followed by decode(S); no     *)
(* length is checked, two halves of 16 bytes give 32 bytes.                 *)
C2_ShortFormExpansion ==
    (/\ Parsed
     /\ pop \in {"from_str_qualified", "build_full_verkey"}
     /\ starts_with(pkey, Tilde)
     /\ base58_decode(Tail(pkey)).ok
     /\ pargs.dest.some
     /\ base58_decode(pargs.dest.v).ok) =>
        LET d == base58_decode(pargs.dest.v).val
            s == base58_decode(Tail(pkey)).val
        IN  /\ pres.ok
            /\ base58_decode(pres.val.key) = Ok(d \o s)
            /\ Len(base58_decode(pres.val.key).val) = Len(d) + Len(s)
            /\ (Len(d) = HalfLen /\ Len(s) = HalfLen =>
                   Len(base58_decode(pres.val.key).val) = KeyLen)

C2_Witness ==
    /\ pop = "build_full_verkey"
    /\ pkey = <<Tilde>> \o Half58
    /\ pargs.dest = Some(Half58)
    /\ pres.ok
    /\ base58_decode(pres.val.key).val = (Rep(0, 15) \o <<57>>) \o (Rep(0, 15) \o <<57>>)

(* C3: a key part starting with "~" parsed without a destination fails     *)
(* with MissingDestination and builds no key; any other key part never     *)
(* fails and the destination supplied has no effect on the result.         *)
C3_MissingDestination ==
    Parsed =>
        /\ (starts_with(KeyPart(pkey), Tilde) /\ ~pargs.dest.some =>
               pres = Err("MissingDestination"))
        /\ (~starts_with(KeyPart(pkey), Tilde) =>
               /\ pres.ok
               /\ pres.val.key = KeyPart(pkey)
               /\ pres.val.enc = SuppliedEnc)

C3_Witness ==
    /\ pop = "from_slice"
    /\ pkey = <<Tilde, "z", Colon, "b">>
    /\ pres = Err("MissingDestination")

(* C4: for an input whose key part is not a short form, parsing the long   *)
(* form of the parsed key gives the parsed key again.                      *)
C4_ParseIdempotent ==
    (ppc = "reparsed" /\ ~starts_with(KeyPart(pkey), Tilde)) => pre = pres

C4_Witness ==
    /\ ppc = "reparsed"
    /\ pkey = <<"z", Colon>>
    /\ plf = <<"z", Colon>> \o ED25519
    /\ pre = Ok([key |-> <<"z">>, alg |-> ED25519, enc |-> BASE58])

(* C5: long_form is the key text, a colon and the algorithm tag, and for   *)
(* an input head ":" tail with a non-empty tail and a head that is not a   *)
(* short form, long_form(from_str(input)) is the input itself.             *)
C5_TextRoundTrip ==
    (ppc \in {"formed", "reparsed"}) =>
        /\ Len(plf) = Len(pres.val.key) + 1 + Len(pres.val.alg)
        /\ SubSeq(plf, 1, Len(pres.val.key)) = pres.val.key
        /\ plf[Len(pres.val.key) + 1] = Colon
        /\ SubSeq(plf, Len(pres.val.key) + 2, Len(plf)) = pres.val.alg
        /\ (HasColon(pkey) /\ Remainder(pkey) # <<>>
               /\ ~starts_with(KeyPart(pkey), Tilde) => plf = pkey)

C5_Witness ==
    /\ ppc = "formed"
    /\ pkey = Txt_z_b_b
    /\ plf = Txt_z_b_b

----------------------------------------------------------------------------
(* Signature engine (ursa Ed25519Sha512), idealised: a secret key is the   *)
(* seed followed by the public key derived from it, a signature binds the  *)
(* signer's public key to the message, malformed input is an engine error. *)

SeedLen == PubOffset
SecretLen == PubOffset + KeyLen
SigLen == 2 * KeyLen

(* A byte-wise one-way image that keeps zero bytes zero.                    *)
Engine_image(bytes, k) ==
    [i \in 1..Len(bytes) |-> IF bytes[i] = 0 THEN 0 ELSE (bytes[i] + k) % 256]

Engine_derive(seed) == Engine_image(seed, 100)

Engine_digest(msg) ==
    IF Len(msg) < KeyLen
    THEN (msg \o <<128>>) \o Rep(0, KeyLen - 1 - Len(msg))
    ELSE SubSeq(msg, 1, KeyLen)

Engine_keypair(seed) ==
    LET s == Rep(0, SeedLen - 1) \o <<seed>>
    IN  [pk |-> Engine_derive(s), sk |-> s \o Engine_derive(s)]

Engine_sign(msg, sk) ==
    IF Len(sk) # SecretLen THEN Err("EngineError")
    ELSE Ok(Engine_derive(SubSeq(sk, 1, SeedLen)) \o Engine_digest(msg))

Engine_signature_well_formed(sig) == Len(sig) = SigLen

Engine_verify(msg, sig, pk) ==
    IF Len(pk) # KeyLen \/ ~Engine_signature_well_formed(sig)
    THEN Err("EngineError")
    ELSE Ok(sig = pk \o Engine_digest(msg))

Engine_sign_key_to_key_exchange(sk) ==
    IF Len(sk) # SecretLen THEN Err("EngineError")
    ELSE Ok(Engine_image(SubSeq(sk, 1, SeedLen), 1))

Engine_ver_key_to_key_exchange(pk) ==
    IF Len(pk) # KeyLen THEN Err("EngineError")
    ELSE Ok(Engine_image(pk, 2))

----------------------------------------------------------------------------
(* SignKey.                                                                *)

SignKey_new(key, alg) == [key |-> key, alg |-> KeyType_unwrap_or_default(alg)]

VerKey_new(key, alg) == [key |-> key, alg |-> KeyType_unwrap_or_default(alg)]

SignKey_generate(alg, seed) ==
    IF KeyType_unwrap_or_default(alg) = ED25519
    THEN Ok(SignKey_new(Engine_keypair(seed).sk, Some(ED25519)))
    ELSE Err("UnsupportedAlgorithm")

SignKey_from_seed(seed) == Ok(SignKey_new(Engine_keypair(seed).sk, Some(ED25519)))

(* public_key taking the leading bytes of the secret key.                  *)
SignKey_public_key_leading(sk) ==
    IF sk.alg = ED25519
    THEN IF Len(sk.key) < PubOffset THEN Panic
         ELSE Ok(VerKey_new(SubSeq(sk.key, 1, PubOffset), Some(sk.alg)))
    ELSE Err("UnsupportedAlgorithm")

(* &self.key[32..] panics when the key has fewer than 32 bytes.            *)
SignKey_public_key(sk) ==
    IF sk.alg = ED25519
    THEN IF Len(sk.key) < PubOffset THEN Panic
         ELSE Ok(VerKey_new(SubSeq(sk.key, PubOffset + 1, Len(sk.key)),
                            Some(sk.alg)))
    ELSE Err("UnsupportedAlgorithm")

SignKey_key_bytes(sk) == sk.key

SignKey_key_exchange(sk) ==
    IF sk.alg = ED25519
    THEN LET x_sk == Engine_sign_key_to_key_exchange(SignKey_key_bytes(sk))
         IN  IF ~x_sk.ok THEN Err("KeyExchangeConversionFailed")
             ELSE Ok(SignKey_new(x_sk.val, Some(X25519)))
    ELSE Err("UnsupportedAlgorithm")

SignKey_sign(sk, message) ==
    IF sk.alg = ED25519
    THEN LET sig == Engine_sign(message, SignKey_key_bytes(sk))
         IN  IF ~sig.ok THEN Err("SigningFailed") ELSE Ok(sig.val)
    ELSE Err("UnsupportedAlgorithm")

----------------------------------------------------------------------------
(* VerKey.                                                                 *)

VerKey_encode(vk, enc) ==
    IF enc = BASE58
    THEN Ok(EncodedVerKey_new(base58_encode(vk.key), Some(vk.alg), Some(enc)))
    ELSE Err("UnsupportedEncoding")

VerKey_as_base58(vk) == VerKey_encode(vk, BASE58)

VerKey_key_bytes(vk) == vk.key

VerKey_key_exchange(vk) ==
    IF vk.alg = ED25519
    THEN LET x_vk == Engine_ver_key_to_key_exchange(VerKey_key_bytes(vk))
         IN  IF ~x_vk.ok THEN Err("KeyExchangeConversionFailed")
             ELSE Ok(VerKey_new(x_vk.val, Some(X25519)))
    ELSE Err("UnsupportedAlgorithm")

VerKey_verify_signature(vk, message, signature) ==
    IF vk.alg = ED25519
    THEN LET r == Engine_verify(message, signature, VerKey_key_bytes(vk))
         IN  IF ~r.ok THEN Err("VerificationError") ELSE Ok(r.val)
    ELSE Err("UnsupportedAlgorithm")

(* validate accepting every key of at least 32 bytes.                      *)
VerKey_validate_at_least(vk) ==
    IF Len(VerKey_key_bytes(vk)) >= KeyLen THEN Ok("unit")
    ELSE Err("InvalidKeyLength")

VerKey_validate(vk) ==
    IF Len(VerKey_key_bytes(vk)) = KeyLen THEN Ok("unit")
    ELSE Err("InvalidKeyLength")

----------------------------------------------------------------------------
(* EncodedVerKey: decoding and the operations built on it.                 *)

EncodedVerKey_key_bytes(k) ==
    IF k.enc = BASE58
    THEN LET b == base58_decode(k.key)
         IN  IF ~b.ok THEN Err(b.err) ELSE Ok(b.val)
    ELSE Err("UnsupportedEncoding")

(* as_base58 that decodes and re-encodes whatever the encoding tag.        *)
EncodedVerKey_as_base58_always(k) ==
    LET b == EncodedVerKey_key_bytes(k)
    IN  IF ~b.ok THEN Err(b.err)
        ELSE Ok(EncodedVerKey_new(base58_encode(b.val),
                                  Some(k.alg), Some(BASE58)))

EncodedVerKey_as_base58(k) ==
    IF k.enc = BASE58 THEN Ok(k)
    ELSE LET b == EncodedVerKey_key_bytes(k)
         IN  IF ~b.ok THEN Err(b.err)
             ELSE Ok(EncodedVerKey_new(base58_encode(b.val),
                                       Some(k.alg), Some(BASE58)))

EncodedVerKey_key_exchange(k) ==
    IF k.alg = ED25519
    THEN LET b == EncodedVerKey_key_bytes(k)
         IN  IF ~b.ok THEN Err(b.err)
             ELSE LET x == Engine_ver_key_to_key_exchange(b.val)
                  IN  IF ~x.ok THEN Err("KeyExchangeConversionFailed")
                      ELSE Ok(x.val)
    ELSE Err("UnsupportedAlgorithm")

EncodedVerKey_verify_signature(k, message, signature) ==
    IF k.alg = ED25519
    THEN LET b == EncodedVerKey_key_bytes(k)
         IN  IF ~b.ok THEN Err(b.err)
             ELSE LET r == Engine_verify(message, signature, b.val)
                  IN  IF ~r.ok THEN Err("VerificationError") ELSE Ok(r.val)
    ELSE Err("UnsupportedAlgorithm")

EncodedVerKey_validate(k) ==
    LET b == EncodedVerKey_key_bytes(k)
    IN  IF ~b.ok THEN Err(b.err)
        ELSE IF Len(b.val) = KeyLen THEN Ok("unit")
             ELSE Err("InvalidKeyLength")

----------------------------------------------------------------------------
(* One operation applied to one key built by a permissive constructor.     *)

Lens == (0..MaxOff) \cup ((KeyLen - MaxOff)..(KeyLen + MaxOff)) \cup {SecretLen}
(* Keys of each length: zero bytes closed by one chosen byte, and short    *)
(* keys of high bytes.                                                     *)
ByteSeqs ==
    {Rep(0, n - 1) \o <<f>> : n \in Lens \ {0}, f \in {0, 57, 255}}
        \cup {Rep(255, n) : n \in 0..(MaxOff + 1)}
AlgTags == {ED25519, X25519, <<"b">>}
EncTags == {BASE58, <<"h", "e", "x">>}
OptAlgTags == {None} \cup {Some(a) : a \in AlgTags}
OptEncTags == {None} \cup {Some(e) : e \in EncTags}
Msgs == StrUpTo({1, 2}, MaxMsg)

(* Texts: encodings of the byte strings, and texts outside the alphabet.   *)
KeyTexts == {base58_encode(b) : b \in ByteSeqs} \cup {<<"0">>, <<"z", "0">>}

(* Keys parsed from a short form: two halves, and two single bytes.        *)
ExpandedKeys ==
    {from_str_qualified(<<Tilde>> \o t, Some(t), None, None).val :
        t \in {Half58, <<"z">>}}

SignKeys == {SignKey_new(b, a) : b \in ByteSeqs, a \in OptAlgTags}
VerKeys == {VerKey_new(b, a) : b \in ByteSeqs, a \in OptAlgTags}
EncodedVerKeys ==
    {EncodedVerKey_new(t, a, e) : t \in KeyTexts, a \in OptAlgTags, e \in OptEncTags}
        \cup ExpandedKeys

NoArg == [enc |-> <<>>, msg |-> <<>>, sig |-> <<>>]

(* Signatures offered to verify_signature: well formed and not.            *)
SigsFor(msg) ==
    {Rep(0, SigLen), Rep(0, KeyLen) \o Engine_digest(msg), <<>>, Rep(0, SigLen - 1)}

OpsInit ==
    /\ okind \in {"SignKey", "VerKey", "EncodedVerKey"}
    /\ oinst \in (CASE okind = "SignKey" -> SignKeys
                    [] okind = "VerKey" -> VerKeys
                    [] okind = "EncodedVerKey" -> EncodedVerKeys)
    /\ oarg = NoArg
    /\ oop = "none"
    /\ oout = Err("none")
    /\ oout2 = Err("none")
    /\ opc = "start"

OpsIdle ==
    /\ okind = "none"
    /\ oinst = [key |-> <<>>, alg |-> <<>>]
    /\ oarg = NoArg
    /\ oop = "none"
    /\ oout = Err("none")
    /\ oout2 = Err("none")
    /\ opc = "idle"

Ready(kind) == opc = "start" /\ okind = kind

Finish ==
    /\ opc' = "done"
    /\ UNCHANGED <<okind, oinst, oout2>>
    /\ UNCHANGED <<parseVars, signVars, lifeVars>>

OpSignKeyPublicKey ==
    /\ Ready("SignKey")
    /\ oop' = "SignKey.public_key"
    /\ oarg' = NoArg
    /\ oout' = SignKey_public_key(oinst)
    /\ Finish

OpSignKeySign ==
    /\ Ready("SignKey")
    /\ oop' = "SignKey.sign"
    /\ \E m \in Msgs :
          /\ oarg' = [NoArg EXCEPT !.msg = m]
          /\ oout' = SignKey_sign(oinst, m)
    /\ Finish

OpSignKeyKeyExchange ==
    /\ Ready("SignKey")
    /\ oop' = "SignKey.key_exchange"
    /\ oarg' = NoArg
    /\ oout' = SignKey_key_exchange(oinst)
    /\ Finish

OpVerKeyEncode ==
    /\ Ready("VerKey")
    /\ oop' = "VerKey.encode"
    /\ \E e \in EncTags :
          /\ oarg' = [NoArg EXCEPT !.enc = e]
          /\ oout' = VerKey_encode(oinst, e)
    /\ Finish

OpVerKeyKeyExchange ==
    /\ Ready("VerKey")
    /\ oop' = "VerKey.key_exchange"
    /\ oarg' = NoArg
    /\ oout' = VerKey_key_exchange(oinst)
    /\ Finish

OpVerKeyVerify ==
    /\ Ready("VerKey")
    /\ oop' = "VerKey.verify_signature"
    /\ \E m \in Msgs : \E sg \in SigsFor(m) :
          /\ oarg' = [NoArg EXCEPT !.msg = m, !.sig = sg]
          /\ oout' = VerKey_verify_signature(oinst, m, sg)
    /\ Finish

OpVerKeyValidate ==
    /\ Ready("VerKey")
    /\ oop' = "VerKey.validate"
    /\ oarg' = NoArg
    /\ oout' = VerKey_validate(oinst)
    /\ Finish

OpEncodedAsBase58 ==
    /\ Ready("EncodedVerKey")
    /\ oop' = "EncodedVerKey.as_base58"
    /\ oarg' = NoArg
    /\ oout' = EncodedVerKey_as_base58(oinst)
    /\ Finish

OpEncodedKeyBytes ==
    /\ Ready("EncodedVerKey")
    /\ oop' = "EncodedVerKey.key_bytes"
    /\ oarg' = NoArg
    /\ oout' = EncodedVerKey_key_bytes(oinst)
    /\ Finish

OpEncodedKeyExchange ==
    /\ Ready("EncodedVerKey")
    /\ oop' = "EncodedVerKey.key_exchange"
    /\ oarg' = NoArg
    /\ oout' = EncodedVerKey_key_exchange(oinst)
    /\ Finish

OpEncodedVerify ==
    /\ Ready("EncodedVerKey")
    /\ oop' = "EncodedVerKey.verify_signature"
    /\ \E m \in Msgs : \E sg \in SigsFor(m) :
          /\ oarg' = [NoArg EXCEPT !.msg = m, !.sig = sg]
          /\ oout' = EncodedVerKey_verify_signature(oinst, m, sg)
    /\ Finish

OpEncodedValidate ==
    /\ Ready("EncodedVerKey")
    /\ oop' = "EncodedVerKey.validate"
    /\ oarg' = NoArg
    /\ oout' = EncodedVerKey_validate(oinst)
    /\ Finish

(* v.encode(enc).validate(): validate applied to the key encode returned.  *)
OpValidateEncoded ==
    /\ opc = "done"
    /\ oop = "VerKey.encode"
    /\ oout.ok
    /\ oout2' = EncodedVerKey_validate(oout.val)
    /\ opc' = "validated"
    /\ UNCHANGED <<okind, oinst, oarg, oop, oout>>
    /\ UNCHANGED <<parseVars, signVars, lifeVars>>

OpsNext ==
    \/ OpSignKeyPublicKey
    \/ OpSignKeySign
    \/ OpSignKeyKeyExchange
    \/ OpVerKeyEncode
    \/ OpVerKeyKeyExchange
    \/ OpVerKeyVerify
    \/ OpVerKeyValidate
    \/ OpEncodedAsBase58
    \/ OpEncodedKeyBytes
    \/ OpEncodedKeyExchange
    \/ OpEncodedVerify
    \/ OpEncodedValidate
    \/ OpValidateEncoded

----------------------------------------------------------------------------
(* Generate a signing key, sign a message, derive the public key, verify.  *)

Seeds == 1..NSeeds

SignInit ==
    /\ galg = None
    /\ gsk = Err("none")
    /\ gmsg = <<>>
    /\ gsig = Err("none")
    /\ gvk = Err("none")
    /\ gtry = [msg |-> <<>>, sig |-> <<>>]
    /\ gout = Err("none")
    /\ gpc = "start"

SignIdle ==
    /\ galg = None
    /\ gsk = Err("none")
    /\ gmsg = <<>>
    /\ gsig = Err("none")
    /\ gvk = Err("none")
    /\ gtry = [msg |-> <<>>, sig |-> <<>>]
    /\ gout = Err("none")
    /\ gpc = "idle"

Generate ==
    /\ gpc = "start"
    /\ \E a \in {None, Some(ED25519), Some(X25519)}, seed \in Seeds :
          /\ galg' = a
          /\ gsk' = SignKey_generate(a, seed)
    /\ gpc' = "generated"
    /\ UNCHANGED <<gmsg, gsig, gvk, gtry, gout>>
    /\ UNCHANGED <<parseVars, opsVars, lifeVars>>

Sign ==
    /\ gpc = "generated"
    /\ gsk.ok
    /\ \E m \in Msgs :
          /\ gmsg' = m
          /\ gsig' = SignKey_sign(gsk.val, m)
    /\ gpc' = "signed"
    /\ UNCHANGED <<galg, gsk, gvk, gtry, gout>>
    /\ UNCHANGED <<parseVars, opsVars, lifeVars>>

PublicKey ==
    /\ gpc = "signed"
    /\ gvk' = SignKey_public_key(gsk.val)
    /\ gpc' = "haspk"
    /\ UNCHANGED <<galg, gsk, gmsg, gsig, gtry, gout>>
    /\ UNCHANGED <<parseVars, opsVars, lifeVars>>

(* The signatures tried: the one made, those of the other messages and of  *)
(* the other keys, and malformed ones.                                     *)
TrySigs ==
    LET made == IF gsig.ok THEN gsig.val ELSE <<>>
    IN  {made, <<>>, SubSeq(made, 1, Len(made) - 1)}
           \cup {SignKey_sign(gsk.val, m).val : m \in Msgs}
           \cup {SignKey_sign(SignKey_generate(None, s).val, gmsg).val : s \in Seeds}

Verify ==
    /\ gpc = "haspk"
    /\ gvk.ok
    /\ gsig.ok
    /\ \E m \in Msgs, sg \in TrySigs :
          /\ gtry' = [msg |-> m, sig |-> sg]
          /\ gout' = VerKey_verify_signature(gvk.val, m, sg)
    /\ gpc' = "verified"
    /\ UNCHANGED <<galg, gsk, gmsg, gsig, gvk>>
    /\ UNCHANGED <<parseVars, opsVars, lifeVars>>

SignNext ==
    \/ Generate
    \/ Sign
    \/ PublicKey
    \/ Verify

----------------------------------------------------------------------------
(* Instances and their storage.  A slot holds one instance: its buffer     *)
(* (mem, of which the first len bytes are in use), its tags, and how it    *)
(* was made.  A released slot shows the storage as it was given back.      *)

Slots == 1..MaxInst

FreeSlot ==
    [st |-> "free", kind |-> "none", mem |-> <<>>, len |-> 0,
     alg |-> <<>>, enc |-> <<>>, origin |-> "none"]

Store(kind, inst, origin) ==
    LET bytes == IF kind = "EncodedVerKey" THEN as_bytes(inst.key) ELSE inst.key
    IN  [st |-> "live", kind |-> kind, mem |-> bytes, len |-> Len(bytes),
         alg |-> inst.alg,
         enc |-> IF kind = "EncodedVerKey" THEN inst.enc ELSE <<>>,
         origin |-> origin]

Load(slot) ==
    IF slot.kind = "EncodedVerKey"
    THEN [key |-> from_utf8(SubSeq(slot.mem, 1, slot.len)).val,
          alg |-> slot.alg, enc |-> slot.enc]
    ELSE [key |-> SubSeq(slot.mem, 1, slot.len), alg |-> slot.alg]

(* Vec<u8> / String zeroize: every byte of the buffer overwritten, then    *)
(* the length set to zero.                                                 *)
Buffer_zeroize(slot) ==
    [slot EXCEPT !.mem = Rep(0, Len(slot.mem)), !.len = 0]

(* A zeroize that only truncates and leaves the tag.                       *)
Zeroize_SignKey_clear_only(slot) == [slot EXCEPT !.len = 0]

Zeroize_SignKey(slot) ==
    [Buffer_zeroize(slot) EXCEPT !.alg = KeyType_from(<<>>)]

Zeroize_VerKey(slot) ==
    [Buffer_zeroize(slot) EXCEPT !.alg = KeyType_from(<<>>)]

Zeroize_EncodedVerKey(slot) ==
    [Buffer_zeroize(slot) EXCEPT !.alg = KeyType_from(<<>>),
                                 !.enc = KeyEncoding_from(<<>>)]

(* Drop::drop runs zeroize, then the storage is given back.                *)
Drop(slot) ==
    LET z == CASE slot.kind = "SignKey" -> Zeroize_SignKey(slot)
               [] slot.kind = "VerKey" -> Zeroize_VerKey(slot)
               [] slot.kind = "EncodedVerKey" -> Zeroize_EncodedVerKey(slot)
    IN  [z EXCEPT !.st = "released"]

LifeBytes == {<<7>>, Engine_keypair(1).sk}
LifeVerBytes == {<<7>>, Engine_keypair(1).pk}
LifeAlgs == {None, Some(<<"b">>)}
LifeEncs == {None, Some(<<"h", "e", "x">>)}
LifeTexts == {<<"z">>, <<Tilde, "z">>, <<Tilde, "0">>}

Live(j, kind) == heap[j].st = "live" /\ heap[j].kind = kind

(* The next instance takes the first free slot.                            *)
IsFirstFree(i) ==
    /\ heap[i].st = "free"
    /\ \A k \in Slots : k < i => heap[k].st # "free"

HasFree == \E i \in Slots : heap[i].st = "free"

FirstFree == CHOOSE i \in Slots : IsFirstFree(i)

(* The heap with a new instance in the first free slot.                    *)
Created(kind, inst, origin) ==
    [heap EXCEPT ![FirstFree] = Store(kind, inst, origin)]

OthersIdle == UNCHANGED <<parseVars, opsVars, signVars>>

LifeInit == heap = [i \in Slots |-> FreeSlot]

LifeIdle == heap = <<>>

LNewSignKey ==
    /\ HasFree
    /\ \E b \in LifeBytes, a \in LifeAlgs :
          heap' = Created("SignKey", SignKey_new(b, a), "new")
    /\ OthersIdle

LNewVerKey ==
    /\ HasFree
    /\ \E b \in LifeVerBytes, a \in LifeAlgs :
          heap' = Created("VerKey", VerKey_new(b, a), "new")
    /\ OthersIdle

LNewEncoded ==
    /\ HasFree
    /\ \E t \in LifeTexts, a \in LifeAlgs, e \in LifeEncs :
          heap' = Created("EncodedVerKey", EncodedVerKey_new(t, a, e), "new")
    /\ OthersIdle

LGenerate ==
    /\ HasFree
    /\ \E a \in {None, Some(X25519)}, seed \in Seeds :
          LET r == SignKey_generate(a, seed)
          IN  r.ok /\ heap' = Created("SignKey", r.val, "generate")
    /\ OthersIdle

LFromSeed ==
    /\ HasFree
    /\ \E seed \in Seeds :
          LET r == SignKey_from_seed(seed)
          IN  r.ok /\ heap' = Created("SignKey", r.val, "from_seed")
    /\ OthersIdle

LPublicKey ==
    /\ HasFree
    /\ \E j \in Slots :
          /\ Live(j, "SignKey")
          /\ LET r == SignKey_public_key(Load(heap[j]))
             IN  r.ok /\ heap' = Created("VerKey", r.val, "public_key")
    /\ OthersIdle

LSignKeyExchange ==
    /\ HasFree
    /\ \E j \in Slots :
          /\ Live(j, "SignKey")
          /\ LET r == SignKey_key_exchange(Load(heap[j]))
             IN  r.ok /\ heap' = Created("SignKey", r.val, "key_exchange")
    /\ OthersIdle

LVerKeyExchange ==
    /\ HasFree
    /\ \E j \in Slots :
          /\ Live(j, "VerKey")
          /\ LET r == VerKey_key_exchange(Load(heap[j]))
             IN  r.ok /\ heap' = Created("VerKey", r.val, "key_exchange")
    /\ OthersIdle

LEncode ==
    /\ HasFree
    /\ \E j \in Slots, e \in EncTags :
          /\ Live(j, "VerKey")
          /\ LET r == VerKey_encode(Load(heap[j]), e)
             IN  r.ok /\ heap' = Created("EncodedVerKey", r.val, "encode")
    /\ OthersIdle

LParse ==
    /\ HasFree
    /\ \E t \in LifeTexts, d \in {None, Some(<<"z">>)} :
          LET r == from_str_qualified(t, d, None, None)
          IN  r.ok /\ heap' = Created("EncodedVerKey", r.val, "parse")
    /\ OthersIdle

LClone ==
    /\ HasFree
    /\ \E j \in Slots :
          /\ heap[j].st = "live"
          /\ heap' = Created(heap[j].kind, Load(heap[j]), "clone")
    /\ OthersIdle

(* as_base58 takes self by value: a base58 key is handed back as it is,    *)
(* any other is dropped when the function returns, with or without a       *)
(* re-encoded key taking a slot.                                           *)
LAsBase58 ==
    /\ \E j \in Slots :
          /\ Live(j, "EncodedVerKey")
          /\ LET r == EncodedVerKey_as_base58(Load(heap[j]))
             IN  IF heap[j].enc = BASE58
                 THEN /\ heap[j].origin # "as_base58"
                      /\ heap' = [heap EXCEPT ![j].origin = "as_base58"]
                 ELSE IF r.ok
                      THEN /\ HasFree
                           /\ heap' = [Created("EncodedVerKey", r.val, "as_base58")
                                         EXCEPT ![j] = Drop(@)]
                      ELSE heap' = [heap EXCEPT
                               ![j] = [Drop(@) EXCEPT !.origin = "as_base58_failed"]]
    /\ OthersIdle

LDrop ==
    /\ \E j \in Slots :
          /\ heap[j].st = "live"
          /\ heap' = [heap EXCEPT ![j] = Drop(@)]
    /\ OthersIdle

LifeNext ==
    \/ LNewSignKey
    \/ LNewVerKey
    \/ LNewEncoded
    \/ LGenerate
    \/ LFromSeed
    \/ LPublicKey
    \/ LSignKeyExchange
    \/ LVerKeyExchange
    \/ LEncode
    \/ LParse
    \/ LClone
    \/ LAsBase58
    \/ LDrop

----------------------------------------------------------------------------
(* The specifications: each runs one part and leaves the others idle.      *)
InitParse == ParseInit /\ OpsIdle /\ SignIdle /\ LifeIdle
SpecParse == InitParse /\ [][ParseNext]_vars
InitOps == OpsInit /\ ParseIdle /\ SignIdle /\ LifeIdle
SpecOps == InitOps /\ [][OpsNext]_vars
InitSign == SignInit /\ ParseIdle /\ OpsIdle /\ LifeIdle
SpecSign == InitSign /\ [][SignNext]_vars
InitLife == LifeInit /\ ParseIdle /\ OpsIdle /\ SignIdle
SpecLife == InitLife /\ [][LifeNext]_vars

----------------------------------------------------------------------------
(* Properties of signing and verifying.                                    *)

TriedTheSignatureMade == gtry.msg = gmsg /\ gtry.sig = gsig.val

(* C6 as stated: a key from generate (default or ED25519) has a public     *)
(* key, its signature of a message verifies Ok(true), and the same         *)
(* signature against another message, or any other signature against the   *)
(* message, verifies Ok(false), never an error.                            *)
C6_AnyOtherSignatureIsFalse ==
    /\ (gpc # "start" /\ galg \in {None, Some(ED25519)} => gsk.ok)
    /\ (gpc \in {"signed", "haspk", "verified"} => gsig.ok)
    /\ (gpc \in {"haspk", "verified"} => gvk.ok)
    /\ (gpc = "verified" /\ (gtry.msg = gmsg \/ gtry.sig = gsig.val) =>
           /\ gout.ok
           /\ gout.val = TriedTheSignatureMade)

(* C6 amended: as above, but only a signature the engine accepts as well   *)
(* formed verifies Ok(false); a malformed one is a VerificationError.      *)
C6_SignVerify ==
    /\ (gpc # "start" /\ galg \in {None, Some(ED25519)} => gsk.ok)
    /\ (gpc \in {"signed", "haspk", "verified"} => gsig.ok)
    /\ (gpc \in {"haspk", "verified"} => gvk.ok)
    /\ (gpc = "verified" /\ (gtry.msg = gmsg \/ gtry.sig = gsig.val) =>
           IF Engine_signature_well_formed(gtry.sig)
           THEN gout.ok /\ gout.val = TriedTheSignatureMade
           ELSE ~gout.ok /\ gout.err = "VerificationError")

C6_Witness ==
    /\ gpc = "verified"
    /\ galg = None
    /\ gmsg = <<1>>
    /\ TriedTheSignatureMade
    /\ gout.ok
    /\ gout.val = TRUE

----------------------------------------------------------------------------
(* Properties of single operations.                                        *)

Finished == opc \in {"done", "validated"}

DecodesToKeyLen(k) ==
    /\ k.enc = BASE58
    /\ base58_decode(k.key).ok
    /\ Len(base58_decode(k.key).val) = KeyLen

(* C7: VerKey::validate succeeds exactly on 32 bytes whatever the tag,     *)
(* EncodedVerKey::validate exactly when the text decodes under its         *)
(* encoding to 32 bytes and otherwise fails without a panic, and           *)
(* v.encode(BASE58).validate() succeeds exactly when v.validate() does;    *)
(* wrong-length keys are built and parsed, and only validate rejects them. *)
C7_Validation ==
    /\ (Finished /\ oop = "VerKey.validate" =>
           /\ oout.ok <=> Len(oinst.key) = KeyLen
           /\ ~oout.ok => oout.err = "InvalidKeyLength")
    /\ (Finished /\ oop = "EncodedVerKey.validate" =>
           /\ oout.ok <=> DecodesToKeyLen(oinst)
           /\ ~oout.ok =>
                 oout.err \in {"InvalidKeyLength", "InvalidEncoding",
                               "UnsupportedEncoding"})
    /\ (opc = "validated" => (oout2.ok <=> Len(oinst.key) = KeyLen))
    /\ (Finished /\ oop = "VerKey.encode" /\ oarg.enc = BASE58 =>
           /\ oout.ok
           /\ base58_decode(oout.val.key) = Ok(oinst.key))

C7_Witness ==
    /\ opc = "validated"
    /\ oinst.alg = X25519
    /\ oinst.key = Rep(0, KeyLen - 1) \o <<255>>
    /\ oout2.ok

(* A wrong-length key from a short-form expansion, rejected by validate.   *)
C7_WitnessExpanded ==
    /\ Finished
    /\ oop = "EncodedVerKey.validate"
    /\ oinst \in ExpandedKeys
    /\ oout.err = "InvalidKeyLength"

AlgOps ==
    {"SignKey.public_key", "SignKey.sign", "SignKey.key_exchange",
     "VerKey.key_exchange", "VerKey.verify_signature",
     "EncodedVerKey.key_exchange", "EncodedVerKey.verify_signature"}

EncOps ==
    {"EncodedVerKey.key_bytes", "EncodedVerKey.validate",
     "EncodedVerKey.as_base58", "EncodedVerKey.key_exchange",
     "EncodedVerKey.verify_signature"}

UnsupportedAlg == oop \in AlgOps /\ oinst.alg # ED25519

UnsupportedEnc ==
    \/ oop \in EncOps /\ oinst.enc # BASE58
    \/ oop = "VerKey.encode" /\ oarg.enc # BASE58

(* An unsupported tag gives the matching failure.                          *)
UnsupportedFails ==
    Finished =>
        /\ (UnsupportedAlg => ~oout.ok /\ oout.err = "UnsupportedAlgorithm")
        /\ (UnsupportedEnc /\ ~UnsupportedAlg =>
               ~oout.ok /\ oout.err = "UnsupportedEncoding")

(* C9: no operation on a key a permissive constructor built panics, and    *)
(* an unsupported algorithm or encoding tag gives the matching failure.    *)
C9_NeverPanics ==
    /\ (Finished => oout.err # "panic" /\ oout2.err # "panic")
    /\ UnsupportedFails

(* C10 as stated: as_base58 hands a base58 key back unchanged and turns    *)
(* any other key into the base58 encoding of its decoded bytes.            *)
C10_ReencodesOtherEncodings ==
    (Finished /\ oop = "EncodedVerKey.as_base58") =>
        /\ oout.ok
        /\ IF oinst.enc = BASE58 THEN oout.val = oinst
           ELSE /\ oout.val.enc = BASE58
                /\ oout.val.alg = oinst.alg

(* C10 amended: as_base58 hands a base58 key back unchanged, and for any   *)
(* other encoding tag fails with the unsupported-encoding failure of       *)
(* key_bytes and returns no key.                                           *)
C10_AsBase58 ==
    (Finished /\ oop = "EncodedVerKey.as_base58") =>
        IF oinst.enc = BASE58 THEN oout.ok /\ oout.val = oinst
        ELSE ~oout.ok /\ oout.err = "UnsupportedEncoding"

C10_Witness ==
    /\ Finished
    /\ oop = "EncodedVerKey.as_base58"
    /\ oinst.enc # BASE58
    /\ base58_decode(oinst.key).ok
    /\ oout = Err("UnsupportedEncoding")

C10_WitnessUnchanged ==
    /\ Finished
    /\ oop = "EncodedVerKey.as_base58"
    /\ oinst.enc = BASE58
    /\ ~base58_decode(oinst.key).ok
    /\ oout.ok

----------------------------------------------------------------------------
(* Properties of disposal.                                                 *)

AllZero(mem) == \A k \in 1..Len(mem) : mem[k] = 0

(* C8: the storage of every released instance, however the instance was    *)
(* made and on whichever path it was dropped, holds only zero bytes, its   *)
(* algorithm tag is the default tag and, for an EncodedVerKey, so is its   *)
(* encoding tag.                                                           *)
C8_ZeroizedOnRelease ==
    \A i \in Slots :
        heap[i].st = "released" =>
            /\ AllZero(heap[i].mem)
            /\ heap[i].len = 0
            /\ heap[i].alg = KeyType_default
            /\ (heap[i].kind = "EncodedVerKey" =>
                   heap[i].enc = KeyEncoding_default)

C8_Witness ==
    \E i, j \in Slots :
        /\ heap[i].st = "released"
        /\ heap[i].origin = "as_base58_failed"
        /\ Len(heap[i].mem) > 0
        /\ heap[j].st = "released"
        /\ heap[j].kind = "SignKey"
        /\ heap[j].origin = "generate"
        /\ Len(heap[j].mem) = SecretLen

====
